---- MODULE Spec2Model ----
(***************************************************************************)
(* AWS CostWatch (src/aws_cost_dashboard.py): the main program runs the    *)
(* RealTimeAWSCostDashboard (main()) and then constructs                   *)
(* AdvancedAWSCostWatch, whose constructor scans once and enters the scan  *)
(* loop.  The model follows the main thread through both engines, the      *)
(* worker pool of a scan, and the SQLite History Store.                    *)
(*                                                                         *)
(* Money is counted in units of 1e-4 dollar, so every rate of the price    *)
(* tables is an integer.  Event times are seconds from the start of the    *)
(* audit lookback window.                                                  *)
(***************************************************************************)
EXTENDS Integers, Sequences, FiniteSets, TLC

(* ---------------------------------------------------------------- bounds *)
MaxScans == 2
MaxRTScans == 2
MaxFailures == 2
MaxStoreFaults == 1
MaxEvents == 3
MaxRecords == 2
MaxHistory == 8
MaxItems == 2

(* ------------------------------------------------------ program constants *)
max_workers == 10
EphemeralThreshold == 600
TrendLimit == 7
BarWidth == 40
IdleThreshold == 5

FallbackRegions == <<"us-east-1">>
DiscoveredRegions == <<"us-east-1", "eu-west-1">>
AllRegions == {"us-east-1", "eu-west-1"}
PoolKinds == <<"ec2", "rds", "lambda">>
ListKinds == {"ec2", "rds", "lambda", "ebs"}

(* ------------------------------------------------------------- helpers *)
RECURSIVE SumSeq(_)
SumSeq(s) == IF s = <<>> THEN 0 ELSE Head(s) + SumSeq(Tail(s))

Monthlies(s) == [i \in 1..Len(s) |-> s[i].monthly]

RECURSIVE SelectRegion(_, _)
SelectRegion(s, r) ==
    IF s = <<>> THEN <<>>
    ELSE IF Head(s).region = r THEN <<Head(s)>> \o SelectRegion(Tail(s), r)
    ELSE SelectRegion(Tail(s), r)

(* ------------------------------------------------------------ price maps *)
ZeroWhenUnknownEc2(itype) ==
    CASE itype = "t3.micro" -> 104
      [] itype = "t3.small" -> 208
      [] itype = "t3.medium" -> 416
      [] itype = "m5.large" -> 960
      [] itype = "c5.large" -> 850
      [] OTHER -> 0

get_ec2_hourly_rate(itype) ==
    CASE itype = "t3.micro" -> 104
      [] itype = "t3.small" -> 208
      [] itype = "t3.medium" -> 416
      [] itype = "m5.large" -> 960
      [] itype = "c5.large" -> 850
      [] OTHER -> 500

get_rds_hourly_rate(cls) ==
    CASE cls = "db.t3.micro" -> 160
      [] cls = "db.t3.small" -> 320
      [] cls = "db.t3.medium" -> 640
      [] cls = "db.m5.large" -> 1710
      [] OTHER -> 500

(* --------------------------------------- the provider's inventory (input) *)
(* What each listing call holds for a region: the raw provider response.   *)
RawInventory(kind, region) ==
    CASE kind = "ec2" /\ region = "us-east-1" ->
            << [id |-> "i-1", type |-> "t3.micro", state |-> "running", age |-> 10],
               [id |-> "i-2", type |-> "x1.large", state |-> "stopped", age |-> 720] >>
      [] kind = "ec2" /\ region = "eu-west-1" ->
            << [id |-> "i-3", type |-> "m5.large", state |-> "running", age |-> 0] >>
      [] kind = "rds" /\ region = "eu-west-1" ->
            << [id |-> "db-1", type |-> "db.t3.micro", state |-> "available", age |-> 10] >>
      [] kind = "lambda" /\ region = "eu-west-1" ->
            << [id |-> "fn-1", type |-> "python3.9", state |-> "active"] >>
      [] kind = "ebs" /\ region = "eu-west-1" ->
            << [id |-> "vol-1", type |-> "gp2", state |-> "available", attachments |-> <<>>] >>
      [] kind = "s3" ->
            << [id |-> "bucket-1", type |-> "bucket", state |-> "active"] >>
      [] OTHER -> <<>>

(* lines 829 and 872: monthly = hourly * 24 * 30. *)
MonthlyEstimate(hourly) == hourly * 24 * 30

(* lines 826-828 and 870-873: total = hourly * uptime, the uptime in hours   *)
(* since the launch or creation time.  The model's ages are whole hours.    *)
CumulativeEstimate(hourly, uptime) == hourly * uptime

(* One parsed record, as the fetchers build it (estimates included). *)
ParseRecord(kind, region, raw) ==
    LET hourly == CASE kind = "ec2" -> get_ec2_hourly_rate(raw.type)
                    [] kind = "rds" -> get_rds_hourly_rate(raw.type)
                    [] OTHER -> 0
        monthly == CASE kind = "ec2" -> MonthlyEstimate(hourly)
                     [] kind = "rds" -> MonthlyEstimate(hourly)
                     [] kind = "s3" -> 2300
                     [] kind = "lambda" -> 200
                     [] kind = "ebs" -> 8 * 1000
                     [] OTHER -> 0
    IN  CASE kind = "ebs" ->
               [id |-> raw.id, kind |-> kind, region |-> region, type |-> raw.type,
                state |-> raw.state, hourly |-> hourly, monthly |-> monthly,
                attachments |-> raw.attachments]
          [] kind \in {"ec2", "rds"} ->
               [id |-> raw.id, kind |-> kind, region |-> region, type |-> raw.type,
                state |-> raw.state, hourly |-> hourly, monthly |-> monthly,
                total |-> CumulativeEstimate(hourly, raw.age)]
          [] OTHER ->
               [id |-> raw.id, kind |-> kind, region |-> region, type |-> raw.type,
                state |-> raw.state, hourly |-> hourly, monthly |-> monthly]

ParseAll(kind, region, raws) ==
    [i \in 1..Len(raws) |-> ParseRecord(kind, region, raws[i])]

(* ------------------------------------------- provider call outcomes (input) *)
(* A call site is a <<kind, region>> pair; the global calls use "global".   *)
ListCalls == ListKinds \X AllRegions
GlobalCalls == {<<"s3", "global">>, <<"cost", "global">>,
                <<"budgets", "global">>, <<"audit", "global">>}
Calls == ListCalls \cup GlobalCalls

(* "ok": the call returns and every record parses.  "fail": the call raises *)
(* before any record is parsed.  "partial": the response is received and an *)
(* exception is raised while its last record is parsed.                     *)
OutcomesOf(c) ==
    IF c[1] \in ListKinds \cup {"s3"} /\ Len(RawInventory(c[1], IF c[1] = "s3" THEN "global" ELSE c[2])) >= 2
    THEN {"ok", "fail", "partial"}
    ELSE {"ok", "fail"}

Environments ==
    { e \in [Calls -> {"ok", "fail", "partial"}] :
        /\ \A c \in Calls : e[c] \in OutcomesOf(c)
        /\ Cardinality({c \in Calls : e[c] # "ok"}) <= MaxFailures }

(* -------------------------------------------------- CloudTrail correlation *)
CreateKeywords == {"RunInstances", "CreateFunction", "CreateBucket"}
DeleteKeywords == {"TerminateInstances", "DeleteFunction", "DeleteBucket"}

(* The keywords that occur as substrings of an event name. *)
KeywordsIn(ename) ==
    CASE ename = "RunInstances" -> {"RunInstances"}
      [] ename = "CreateFunction20150331" -> {"CreateFunction"}
      [] ename = "CreateBucket" -> {"CreateBucket"}
      [] ename = "TerminateInstances" -> {"TerminateInstances"}
      [] ename = "DeleteFunction20150331" -> {"DeleteFunction"}
      [] ename = "DeleteBucket" -> {"DeleteBucket"}
      [] OTHER -> {}

IsCreateEvent(ename) == \E k \in CreateKeywords : k \in KeywordsIn(ename)
IsDeleteEvent(ename) == \E k \in DeleteKeywords : k \in KeywordsIn(ename)

(* A dict with insertion order: a sequence of [rid, ev] entries; assigning  *)
(* an existing key keeps its position and replaces its value.               *)
MapHas(m, rid) == \E i \in 1..Len(m) : m[i].rid = rid
MapGet(m, rid) == m[CHOOSE i \in 1..Len(m) : m[i].rid = rid].ev
MapPutIfAbsent(m, rid, ev) ==
    IF MapHas(m, rid) THEN m ELSE Append(m, [rid |-> rid, ev |-> ev])

MapPut(m, rid, ev) ==
    IF MapHas(m, rid)
    THEN [i \in 1..Len(m) |-> IF m[i].rid = rid THEN [rid |-> rid, ev |-> ev] ELSE m[i]]
    ELSE Append(m, [rid |-> rid, ev |-> ev])

(* Lines 960-970: one pass over the events, filling create_map, delete_map. *)
RECURSIVE BuildMaps(_, _, _)
BuildMaps(events, create_map, delete_map) ==
    IF events = <<>> THEN [create_map |-> create_map, delete_map |-> delete_map]
    ELSE LET ev == Head(events)
             rid == ev.rid
         IN  IF rid = "" THEN BuildMaps(Tail(events), create_map, delete_map)
             ELSE BuildMaps(Tail(events),
                     IF IsCreateEvent(ev.name) THEN MapPut(create_map, rid, ev) ELSE create_map,
                     IF IsDeleteEvent(ev.name) THEN MapPut(delete_map, rid, ev) ELSE delete_map)

Lifetime(created, deleted) == deleted.time - created.time

IsEphemeralInclusive(life) == life <= EphemeralThreshold

IsEphemeral(life) == life < EphemeralThreshold

(* Lines 971-986: the records the loop over create_map will emit, in order. *)
RECURSIVE Correlate(_, _)
Correlate(create_map, delete_map) ==
    IF create_map = <<>> THEN <<>>
    ELSE LET rid == Head(create_map).rid
             rest == Correlate(Tail(create_map), delete_map)
         IN  IF MapHas(delete_map, rid)
             THEN LET t1 == Head(create_map).ev
                      t2 == MapGet(delete_map, rid)
                      life == Lifetime(t1, t2)
                  IN  IF IsEphemeral(life)
                      THEN << [resource_id |-> rid, service |-> "unknown",
                               user |-> t1.user, created |-> t1.time,
                               deleted |-> t2.time, lifetime |-> life] >> \o rest
                      ELSE rest
             ELSE rest

EphemeralCandidates(events) ==
    LET maps == BuildMaps(events, <<>>, <<>>)
    IN  Correlate(maps.create_map, maps.delete_map)

(* ----------------------------------------- audit windows (input to lookup) *)
EventTimes == {0, 300, 600}
ResourceIds == {"X", "Y"}

Event(n, r, t) == [name |-> n, rid |-> r, time |-> t, user |-> "alice"]

(* Create and delete events over the small alphabets, one event that names  *)
(* no resource, and one whose name matches no keyword.                      *)
EventSet ==
    { Event(n, r, t) : n \in {"RunInstances", "TerminateInstances"},
                       r \in ResourceIds, t \in EventTimes }
        \cup { Event("RunInstances", "", 0), Event("DescribeInstances", "X", 0) }

RECURSIVE SeqsUpTo(_, _)
SeqsUpTo(S, n) ==
    IF n = 0 THEN { <<>> }
    ELSE LET shorter == SeqsUpTo(S, n - 1)
         IN  shorter \cup { Append(s, x) : s \in {q \in shorter : Len(q) = n - 1}, x \in S }

AllWindows == SeqsUpTo(EventSet, MaxEvents)

(* The windows the scan loop is run against. *)
ScanWindows ==
    { <<>>,
      << Event("RunInstances", "X", 0), Event("RunInstances", "Y", 300),
         Event("TerminateInstances", "Y", 300), Event("TerminateInstances", "X", 300) >> }

(* ------------------------------------------ billing by usage type (input) *)
(* The substrings of a usage type that the two classifiers look for.  ""   *)
(* is the key of a line item without a usage type.                          *)
MarkersIn(ut) ==
    CASE ut = "USE1-DataTransfer-Out-Bytes" -> {"DataTransfer", "Transfer", "Out"}
      [] ut = "USE1-DataTransfer-Internet-Bytes" -> {"DataTransfer", "Transfer", "Internet"}
      [] ut = "USE1-DataTransfer-Regional-Bytes" -> {"DataTransfer", "Transfer", "Regional"}
      [] ut = "USE1-USW2-AWS-In-Bytes" -> {}
      [] ut = "USE1-DataTransfer-In-Bytes" -> {"DataTransfer", "Transfer"}
      [] ut = "USE1-CloudFront-Out-Bytes" -> {"Out"}
      [] OTHER -> {}

(* lines 1049 and 1581: "DataTransfer" in ut or "Transfer" in ut. *)
IsTransferItem(g) == MarkersIn(g.ut) \cap {"DataTransfer", "Transfer"} # {}

MatrixMarkers == {"Out", "Internet"}

(* line 1050: any(k in ut for k in ["Out", "Internet", "Regional"]). *)
BreakdownMarkers == {"Out", "Internet", "Regional"}

IsNorthSouth(g) == MarkersIn(g.ut) \cap BreakdownMarkers # {}

Costs(items) == [i \in 1..Len(items) |-> items[i].cost]

(* lines 1046-1053: the two transfer sums over the usage-type groups. *)
TransferSplit(items) ==
    LET Outward(g) == IsTransferItem(g) /\ IsNorthSouth(g)
        Inward(g) == IsTransferItem(g) /\ ~IsNorthSouth(g)
    IN  [transfer_ns |-> SumSeq(Costs(SelectSeq(items, Outward))),
         transfer_ew |-> SumSeq(Costs(SelectSeq(items, Inward)))]

(* What Cost Explorer holds for the account: 3 dollars to the internet and  *)
(* 1 dollar of inbound transfer, besides the compute usage.                 *)
BilledUsage ==
    << [ut |-> "USE1-DataTransfer-Out-Bytes", cost |-> 30000],
       [ut |-> "USE1-DataTransfer-In-Bytes", cost |-> 10000],
       [ut |-> "USE1-BoxUsage:t3.micro", cost |-> 1160000] >>

(* lines 1009-1053: the totals by service and the transfer sums. *)
CostBreakdown(items) ==
    [total_this |-> 1200000, total_last |-> 1000000,
     transfer_ns |-> TransferSplit(items).transfer_ns,
     transfer_ew |-> TransferSplit(items).transfer_ew]

Billing == CostBreakdown(BilledUsage)

(* =================================================================== state *)
VARIABLES
    pc,               \* position of the main thread
    in_loop,          \* TRUE inside run_dashboard's try block (line 1354)
    exit_reason,      \* how AdvancedAWSCostWatch() ended, "" while it runs
    rt_authed,        \* RealTimeAWSCostDashboard: identity check passed
    rt_scan_count,    \* RealTimeAWSCostDashboard.scan_count
    rt_data,          \* RealTimeAWSCostDashboard.data: [scan, stage]
    account_id,       \* AdvancedAWSCostWatch.account_id ("None" until set)
    enabled_regions,  \* AdvancedAWSCostWatch.enabled_regions
    scan_count,       \* AdvancedAWSCostWatch.scan_count
    data,             \* AdvancedAWSCostWatch.data: a function on its keys
    data_scan,        \* the scan whose line 1157 assigned self.data (0: {})
    last_refresh,     \* the scan that set self.last_refresh (0: None)
    eph_events, ec2_all, rds_all, lam_all, s3_all, ebs_all, cost_data, budgets,
                      \* locals of scan_all_resources
    eph_todo,         \* get_ephemeral_resources: records still to emit
    eph_raised,       \* get_ephemeral_resources: its except clause ran
    futs,             \* futures of the current submit: [region, state, result]
    pool_kind,        \* index in PoolKinds of the kind being collected
    fut_i,            \* index of the future whose result() is awaited
    ebs_i,            \* index of the region of the volume loop
    scans,            \* rows of table scans, as the connection sees them
    ephemeral_events, \* rows of table ephemeral_events, likewise
    durable,          \* [scans, eph]: how many rows of each are committed
    store_failed,     \* the scan whose INSERT INTO scans or commit raised
    store_faults,     \* how many History Store statements have failed so far
    env,              \* outcome of every provider call site
    trail,            \* the events lookup_events returns
    usage,            \* this month's line items by usage type, as billed
    layout,           \* what the panels last put in the layout
    metrics,          \* outcome of every CloudWatch metric query
    patched           \* the v8.1 methods are bound to the class

ctlVars == <<pc, in_loop, exit_reason>>
rtVars == <<rt_authed, rt_scan_count, rt_data>>
engVars == <<account_id, enabled_regions, scan_count, data, data_scan, last_refresh>>
locVars == <<eph_events, ec2_all, rds_all, lam_all, s3_all, ebs_all, cost_data, budgets>>
ephVars == <<eph_todo, eph_raised>>
poolVars == <<futs, pool_kind, fut_i>>
storeVars == <<scans, ephemeral_events, durable, store_failed, store_faults>>
envVars == <<env, trail, usage>>
viewVars == <<layout, metrics, patched>>
vars == <<ctlVars, rtVars, engVars, locVars, ephVars, poolVars, ebs_i, storeVars, envVars, viewVars>>

DataKeys == {"ec2", "rds", "s3", "lambda", "ebs", "ephemeral", "zombies", "cost", "budgets"}

NoCost == [total_this |-> 0, total_last |-> 0, transfer_ns |-> 0, transfer_ew |-> 0]

InitRT ==
    /\ rt_authed = FALSE
    /\ rt_scan_count = 0
    /\ rt_data = [scan |-> 0, stage |-> "none"]

InitEngine ==
    /\ account_id = "None"
    /\ enabled_regions = <<>>
    /\ scan_count = 0
    /\ data = <<>>
    /\ data_scan = 0
    /\ last_refresh = 0

InitLocals ==
    /\ eph_events = <<>> /\ ec2_all = <<>> /\ rds_all = <<>> /\ lam_all = <<>>
    /\ s3_all = <<>> /\ ebs_all = <<>> /\ cost_data = NoCost /\ budgets = <<>>
    /\ eph_todo = <<>> /\ eph_raised = FALSE
    /\ futs = <<>> /\ pool_kind = 0 /\ fut_i = 0 /\ ebs_i = 0

NoPanel == [kind |-> "none"]

(* The layout before the first update; no metric is queried and the v8.1   *)
(* methods are not bound while the entry point of line 1369 runs.          *)
InitView ==
    /\ layout = [cost |-> NoPanel, trend |-> NoPanel, status |-> NoPanel]
    /\ metrics = <<>>
    /\ patched = FALSE

InitStore ==
    /\ scans = <<>>
    /\ ephemeral_events = <<>>
    /\ durable = [scans |-> 0, eph |-> 0]
    /\ store_failed = 0
    /\ store_faults = 0

Init ==
    /\ pc = "rt_init" /\ in_loop = FALSE /\ exit_reason = ""
    /\ InitRT /\ InitEngine /\ InitLocals /\ InitStore /\ InitView
    /\ env \in Environments
    /\ trail \in ScanWindows
    /\ usage = BilledUsage

(* ============================================ RealTimeAWSCostDashboard === *)
IdentityFailureLogged == FALSE

(* What init_clients does when sts.get_caller_identity raises: re-raise.    *)
IdentityFailureAborts == TRUE

(* main() catches whatever the dashboard raises and returns; the dashboard  *)
(* object is dropped and the entry point goes on to AdvancedAWSCostWatch(). *)
LeaveRT ==
    /\ pc' = "adv_init"
    /\ rt_authed' = FALSE /\ rt_scan_count' = 0
    /\ rt_data' = [scan |-> 0, stage |-> "none"]

RTInitClients ==
    /\ pc = "rt_init"
    /\ \E ok \in BOOLEAN :
        IF ok \/ ~IdentityFailureAborts
        THEN /\ rt_authed' = ok
             /\ rt_data' = [scan |-> 0, stage |-> "complete"]
             /\ pc' = "rt_scan"
             /\ UNCHANGED rt_scan_count
        ELSE LeaveRT
    /\ UNCHANGED <<in_loop, exit_reason, engVars, locVars, ephVars, poolVars, ebs_i, storeVars, envVars, viewVars>>

(* scan_all_resources, lines 317-328: count the scan, reset self.data. *)
RTScanBegin ==
    /\ pc = "rt_scan"
    /\ rt_scan_count < MaxRTScans
    /\ rt_scan_count' = rt_scan_count + 1
    /\ rt_data' = [scan |-> rt_scan_count + 1, stage |-> "reset"]
    /\ pc' = "rt_collect"
    /\ UNCHANGED <<in_loop, exit_reason, rt_authed, engVars, locVars, ephVars, poolVars, ebs_i, storeVars, envVars, viewVars>>

(* lines 330-353: the lists of self.data are filled in place. *)
RTScanCollect ==
    /\ pc = "rt_collect"
    /\ rt_data' = [rt_data EXCEPT !.stage = "filled"]
    /\ pc' = "rt_summaries"
    /\ UNCHANGED <<in_loop, exit_reason, rt_authed, rt_scan_count, engVars, locVars, ephVars, poolVars, ebs_i, storeVars, envVars, viewVars>>

(* lines 355-361: calculate_summaries.  The scan of show_init (scan 1) is   *)
(* followed by the scan of the first update_dashboard; every later scan is  *)
(* followed by the panels of its own update_dashboard.                      *)
RTScanFinish ==
    /\ pc = "rt_summaries"
    /\ rt_data' = [rt_data EXCEPT !.stage = "complete"]
    /\ pc' = IF rt_scan_count = 1 THEN "rt_scan" ELSE "rt_render"
    /\ UNCHANGED <<in_loop, exit_reason, rt_authed, rt_scan_count, engVars, locVars, ephVars, poolVars, ebs_i, storeVars, envVars, viewVars>>

(* update_dashboard, lines 643-657: the panels read self.data. *)
RTRender ==
    /\ pc = "rt_render"
    /\ pc' = "rt_scan"
    /\ UNCHANGED <<in_loop, exit_reason, rtVars, engVars, locVars, ephVars, poolVars, ebs_i, storeVars, envVars, viewVars>>

RTPcs == {"rt_init", "rt_scan", "rt_collect", "rt_summaries", "rt_render"}

(* Ctrl+C while the first dashboard runs: lines 673 and 683. *)
RTInterrupt ==
    /\ pc \in RTPcs
    /\ LeaveRT
    /\ UNCHANGED <<in_loop, exit_reason, engVars, locVars, ephVars, poolVars, ebs_i, storeVars, envVars, viewVars>>

(* ================================================ AdvancedAWSCostWatch === *)
(* Where an exception leaving scan_all_resources or update_dashboard ends:  *)
(* inside run_dashboard's try it is the "Fatal error" of line 1362, before  *)
(* it (the constructor's scan, the first update) the "Startup error" of     *)
(* line 1373.                                                               *)
ExceptionExit(inloop) == IF inloop THEN "fatal_error" ELSE "startup_error"

(* KeyboardInterrupt is no Exception: only line 1360 catches it. *)
InterruptExit(inloop) == IF inloop THEN "stopped_by_user" ELSE "keyboard_interrupt"

Raise ==
    /\ pc' = "exit"
    /\ exit_reason' = ExceptionExit(in_loop)
    /\ UNCHANGED in_loop

(* init_clients, lines 774-807. *)
AdvInitClients ==
    /\ pc = "adv_init"
    /\ \E ok \in BOOLEAN, regions_ok \in BOOLEAN :
        IF ok \/ ~IdentityFailureAborts
        THEN /\ account_id' = IF ok THEN "123456789012" ELSE "None"
             /\ enabled_regions' = IF regions_ok THEN DiscoveredRegions ELSE FallbackRegions
             /\ pc' = "scan_begin"
             /\ UNCHANGED <<in_loop, exit_reason>>
        ELSE /\ Raise
             /\ UNCHANGED <<account_id, enabled_regions>>
    /\ UNCHANGED <<rtVars, scan_count, data, data_scan, last_refresh, locVars, ephVars, poolVars, ebs_i, storeVars, envVars, viewVars>>

(* scan_all_resources, lines 1092-1095. *)
ScanBegin ==
    /\ pc = "scan_begin"
    /\ scan_count < MaxScans
    /\ scan_count' = scan_count + 1
    /\ eph_events' = <<>> /\ ec2_all' = <<>> /\ rds_all' = <<>> /\ lam_all' = <<>>
    /\ s3_all' = <<>> /\ ebs_all' = <<>> /\ cost_data' = NoCost /\ budgets' = <<>>
    /\ eph_todo' = <<>> /\ eph_raised' = FALSE
    /\ pc' = "eph_lookup"
    /\ UNCHANGED <<in_loop, exit_reason, rtVars, account_id, enabled_regions, data, data_scan, last_refresh, poolVars, ebs_i, storeVars, envVars, viewVars>>

AppendRowTwice(table, row) == Append(Append(table, row), row)

ReplaceLastRow(table, row) ==
    IF table = <<>> THEN <<row>> ELSE [table EXCEPT ![Len(table)] = row]

(* INSERT INTO ... VALUES: the table gains one row with the next id. *)
AppendRow(table, row) == Append(table, row)

(* A statement on the SQLite connection succeeds or raises sqlite3.Error.   *)
StoreOutcomes == IF store_faults < MaxStoreFaults THEN BOOLEAN ELSE {TRUE}

(* ---- get_ephemeral_resources, lines 954-1003 ---- *)
LookupSinceLastScan == IF last_refresh = 0 THEN trail ELSE <<>>

(* lines 958-959: the events of the ten minutes before the call.            *)
LookupWindow == trail

(* lines 956-986: the lookup and the two maps; a failed lookup returns []. *)
EphLookup ==
    /\ pc = "eph_lookup"
    /\ IF env[<<"audit", "global">>] = "ok"
       THEN /\ eph_todo' = EphemeralCandidates(LookupWindow)
            /\ pc' = IF eph_todo' = <<>> THEN "eph_commit" ELSE "eph_insert"
            /\ UNCHANGED eph_raised
       ELSE /\ eph_raised' = TRUE
            /\ pc' = "pool_submit"
            /\ UNCHANGED eph_todo
    /\ UNCHANGED <<in_loop, exit_reason, rtVars, engVars, locVars, poolVars, ebs_i, storeVars, envVars, viewVars>>

EphemeralRow(r, n) ==
    [scan |-> n, resource_id |-> r.resource_id, service |-> "unknown", region |-> "global",
     user |-> r.user, created |-> r.created, deleted |-> r.deleted, lifetime |-> r.lifetime]

(* lines 977-999: the record is appended to events, then inserted; a failed *)
(* INSERT ends the loop in the except clause of line 1001.                  *)
EphInsert ==
    /\ pc = "eph_insert"
    /\ eph_todo # <<>>
    /\ eph_events' = Append(eph_events, Head(eph_todo))
    /\ \E stored \in StoreOutcomes :
        /\ store_faults' = IF stored THEN store_faults ELSE store_faults + 1
        /\ IF stored
           THEN /\ ephemeral_events' = AppendRow(ephemeral_events, EphemeralRow(Head(eph_todo), scan_count))
                /\ eph_todo' = Tail(eph_todo)
                /\ pc' = IF Tail(eph_todo) = <<>> THEN "eph_commit" ELSE "eph_insert"
                /\ UNCHANGED eph_raised
           ELSE /\ eph_raised' = TRUE
                /\ eph_todo' = <<>>
                /\ pc' = "pool_submit"
                /\ UNCHANGED ephemeral_events
    /\ UNCHANGED <<in_loop, exit_reason, rtVars, engVars, ec2_all, rds_all, lam_all, s3_all, ebs_all, cost_data, budgets, poolVars, ebs_i, scans, durable, store_failed, envVars, viewVars>>

(* line 1000: conn.commit(), inside the same try. *)
EphCommit ==
    /\ pc = "eph_commit"
    /\ \E stored \in StoreOutcomes :
        /\ store_faults' = IF stored THEN store_faults ELSE store_faults + 1
        /\ IF stored
           THEN /\ durable' = [scans |-> Len(scans), eph |-> Len(ephemeral_events)]
                /\ UNCHANGED eph_raised
           ELSE /\ eph_raised' = TRUE
                /\ UNCHANGED durable
    /\ pc' = "pool_submit"
    /\ UNCHANGED <<in_loop, exit_reason, rtVars, engVars, locVars, eph_todo, poolVars, ebs_i, scans, ephemeral_events, store_failed, envVars, viewVars>>

(* ---- the fetchers, lines 812-949 ---- *)
(* What a fetcher returns: its list as filled when it returned or raised.   *)
(* get_ec2_instances, get_rds_instances, get_lambda_functions and           *)
(* get_s3_buckets share the shape: a list appended to inside one try.       *)
FetcherResult(kind, region, outcome) ==
    LET raws == RawInventory(kind, region)
    IN  CASE outcome = "ok" -> ParseAll(kind, region, raws)
          [] outcome = "fail" -> <<>>
          [] outcome = "partial" -> ParseAll(kind, region, SubSeq(raws, 1, Len(raws) - 1))

Fetch(kind, region) == FetcherResult(kind, region, env[<<kind, region>>])

get_s3_buckets == FetcherResult("s3", "us-east-1", env[<<"s3", "global">>])

(* ---- the worker pool, lines 1097-1110 ---- *)
TaskNotAwaited(f) == TRUE

(* f.result() and the executor's shutdown(wait=True) both wait for this.    *)
TaskSettled(f) == f.state = "done"

Running == {i \in 1..Len(futs) : futs[i].state = "running"}

(* lines 1099, 1102, 1105: one future per enabled region for the next kind. *)
PoolSubmit ==
    /\ pc = "pool_submit"
    /\ pool_kind' = pool_kind + 1
    /\ futs' = [i \in 1..Len(enabled_regions) |->
                    [kind |-> PoolKinds[pool_kind + 1], region |-> enabled_regions[i],
                     scan |-> scan_count, state |-> "queued", result |-> <<>>]]
    /\ fut_i' = 1
    /\ pc' = "pool_collect"
    /\ UNCHANGED <<in_loop, exit_reason, rtVars, engVars, locVars, ephVars, ebs_i, storeVars, envVars, viewVars>>

WorkerAlwaysAvailable == TRUE

(* line 1098: ThreadPoolExecutor(max_workers=10) has at most 10 threads.    *)
WorkerAvailable == Cardinality(Running) < max_workers

(* A worker thread takes a queued task: at most max_workers run at a time.  *)
TaskStart(i) ==
    /\ futs[i].state = "queued"
    /\ WorkerAvailable
    /\ futs' = [futs EXCEPT ![i].state = "running"]
    /\ UNCHANGED <<ctlVars, rtVars, engVars, locVars, ephVars, pool_kind, fut_i, ebs_i, storeVars, envVars, viewVars>>

(* The task's fetcher returns: every exception is caught inside it. *)
TaskFinish(i) ==
    /\ futs[i].state = "running"
    /\ futs' = [futs EXCEPT ![i].state = "done",
                            ![i].result = Fetch(futs[i].kind, futs[i].region)]
    /\ UNCHANGED <<ctlVars, rtVars, engVars, locVars, ephVars, pool_kind, fut_i, ebs_i, storeVars, envVars, viewVars>>

(* lines 1100-1107: xxx_all += f.result(), in submission order. *)
PoolCollect ==
    /\ pc = "pool_collect"
    /\ TaskSettled(futs[fut_i])
    /\ LET kind == PoolKinds[pool_kind]
           res == futs[fut_i].result
       IN  /\ ec2_all' = IF kind = "ec2" THEN ec2_all \o res ELSE ec2_all
           /\ rds_all' = IF kind = "rds" THEN rds_all \o res ELSE rds_all
           /\ lam_all' = IF kind = "lambda" THEN lam_all \o res ELSE lam_all
    /\ IF fut_i < Len(futs)
       THEN /\ fut_i' = fut_i + 1
            /\ pc' = "pool_collect"
       ELSE /\ fut_i' = 0
            /\ pc' = IF pool_kind < Len(PoolKinds) THEN "pool_submit" ELSE "pool_exit"
    /\ UNCHANGED <<in_loop, exit_reason, rtVars, engVars, eph_events, s3_all, ebs_all, cost_data, budgets, ephVars, futs, pool_kind, ebs_i, storeVars, envVars, viewVars>>

(* The end of the with block: ThreadPoolExecutor.__exit__ waits. *)
PoolExit ==
    /\ pc = "pool_exit"
    /\ \A i \in 1..Len(futs) : TaskSettled(futs[i])
    /\ pool_kind' = 0
    /\ pc' = "s3"
    /\ UNCHANGED <<in_loop, exit_reason, rtVars, engVars, locVars, ephVars, futs, fut_i, ebs_i, storeVars, envVars, viewVars>>

(* line 1108 *)
ScanS3 ==
    /\ pc = "s3"
    /\ s3_all' = get_s3_buckets
    /\ ebs_i' = 1
    /\ pc' = "ebs"
    /\ UNCHANGED <<in_loop, exit_reason, rtVars, engVars, eph_events, ec2_all, rds_all, lam_all, ebs_all, cost_data, budgets, ephVars, poolVars, storeVars, envVars, viewVars>>

(* ---- volumes, lines 1112-1128: one try around the loop over regions ---- *)
EbsLoopContinues(outcome) == outcome = "ok"

EbsRegion ==
    /\ pc = "ebs"
    /\ LET r == enabled_regions[ebs_i]
           o == env[<<"ebs", r>>]
       IN  /\ ebs_all' = ebs_all \o FetcherResult("ebs", r, o)
           /\ IF EbsLoopContinues(o) /\ ebs_i < Len(enabled_regions)
              THEN /\ ebs_i' = ebs_i + 1
                   /\ pc' = "ebs"
              ELSE /\ ebs_i' = 0
                   /\ pc' = "cost"
    /\ UNCHANGED <<in_loop, exit_reason, rtVars, engVars, eph_events, ec2_all, rds_all, lam_all, s3_all, cost_data, budgets, ephVars, poolVars, storeVars, envVars, viewVars>>

(* ---- billing, lines 1008-1074 ---- *)
BudgetList == << [name |-> "monthly", limit |-> 2000000, actual |-> 1200000, perc |-> 60] >>

ProviderFailurePropagates == FALSE

(* What the billing and budget helpers do when their call raises: log and   *)
(* return the empty result.                                                 *)
ProviderFailureRecovered == TRUE

get_cost_explorer_data == IF env[<<"cost", "global">>] = "ok" THEN CostBreakdown(usage) ELSE NoCost

get_budget_status == IF env[<<"budgets", "global">>] = "ok" THEN BudgetList ELSE <<>>

ScanCost ==
    /\ pc = "cost"
    /\ IF env[<<"cost", "global">>] = "ok" \/ ProviderFailureRecovered
       THEN /\ cost_data' = get_cost_explorer_data
            /\ pc' = "budget"
            /\ UNCHANGED <<in_loop, exit_reason>>
       ELSE /\ Raise
            /\ UNCHANGED cost_data
    /\ UNCHANGED <<rtVars, engVars, eph_events, ec2_all, rds_all, lam_all, s3_all, ebs_all, budgets, ephVars, poolVars, ebs_i, storeVars, envVars, viewVars>>

ScanBudgets ==
    /\ pc = "budget"
    /\ IF env[<<"budgets", "global">>] = "ok" \/ ProviderFailureRecovered
       THEN /\ budgets' = get_budget_status
            /\ pc' = "insert"
            /\ UNCHANGED <<in_loop, exit_reason>>
       ELSE /\ Raise
            /\ UNCHANGED budgets
    /\ UNCHANGED <<rtVars, engVars, eph_events, ec2_all, rds_all, lam_all, s3_all, ebs_all, cost_data, ephVars, poolVars, ebs_i, storeVars, envVars, viewVars>>

(* ---- zombies, lines 1078-1086 ---- *)
OnlyStopped(i) == i.state = "stopped"

NotRunning(i) == i.state # "running"
NoAttachments(v) == IF "attachments" \in DOMAIN v THEN v.attachments = <<>> ELSE TRUE

detect_zombie_resources(ec2_list, ebs_list) ==
    SelectSeq(ec2_list, NotRunning) \o SelectSeq(ebs_list, NoAttachments)

(* ---- the scan row and the snapshot, lines 1132-1171 ---- *)
TotalMonth ==
    SumSeq(Monthlies(ec2_all)) + SumSeq(Monthlies(rds_all)) + SumSeq(Monthlies(s3_all))
        + SumSeq(Monthlies(lam_all)) + SumSeq(Monthlies(ebs_all))

ScanRow ==
    [scan |-> scan_count,
     total_resources |-> Len(ec2_all) + Len(rds_all) + Len(s3_all) + Len(lam_all),
     total_monthly |-> TotalMonth,
     north_south |-> cost_data.transfer_ns,
     east_west |-> cost_data.transfer_ew,
     zombies |-> Len(detect_zombie_resources(ec2_all, ebs_all)),
     ephemerals |-> Len(eph_events)]

SnapshotKeepingOldZombies ==
    [ec2 |-> ec2_all, rds |-> rds_all, s3 |-> s3_all, lambda |-> lam_all,
     ebs |-> ebs_all, ephemeral |-> eph_events,
     zombies |-> IF "zombies" \in DOMAIN data THEN data["zombies"] ELSE <<>>,
     cost |-> cost_data, budgets |-> budgets]

Snapshot ==
    [ec2 |-> ec2_all, rds |-> rds_all, s3 |-> s3_all, lambda |-> lam_all,
     ebs |-> ebs_all, ephemeral |-> eph_events,
     zombies |-> detect_zombie_resources(ec2_all, ebs_all),
     cost |-> cost_data, budgets |-> budgets]

(* The locals of scan_all_resources are gone when it returns or raises. *)
DropLocals ==
    /\ eph_events' = <<>> /\ ec2_all' = <<>> /\ rds_all' = <<>> /\ lam_all' = <<>>
    /\ s3_all' = <<>> /\ ebs_all' = <<>> /\ cost_data' = NoCost /\ budgets' = <<>>
    /\ eph_todo' = <<>> /\ eph_raised' = FALSE
    /\ pool_kind' = 0 /\ fut_i' = 0 /\ ebs_i' = 0

(* The futures die with the with block they were submitted in. *)
DropFutures == futs' = <<>>

StoreFailureSwallowed == FALSE

(* Where a failed INSERT INTO scans or commit goes: nothing in             *)
(* scan_all_resources catches it.                                           *)
StoreFailureEscapes == TRUE

(* lines 1142-1154: cursor.execute(INSERT INTO scans ...) *)
InsertScan ==
    /\ pc = "insert"
    /\ \E stored \in StoreOutcomes :
        /\ store_faults' = IF stored THEN store_faults ELSE store_faults + 1
        /\ IF stored
           THEN /\ scans' = AppendRow(scans, ScanRow)
                /\ pc' = "commit"
                /\ UNCHANGED <<in_loop, exit_reason, store_failed, locVars, ephVars, poolVars, ebs_i>>
           ELSE /\ store_failed' = scan_count
                /\ UNCHANGED scans
                /\ IF StoreFailureEscapes
                   THEN Raise /\ DropLocals /\ DropFutures
                   ELSE /\ pc' = "render"
                        /\ DropLocals /\ DropFutures
                        /\ UNCHANGED <<in_loop, exit_reason>>
    /\ UNCHANGED <<rtVars, engVars, ephemeral_events, durable, envVars, viewVars>>

(* line 1155: conn.commit() *)
CommitScan ==
    /\ pc = "commit"
    /\ \E stored \in StoreOutcomes :
        /\ store_faults' = IF stored THEN store_faults ELSE store_faults + 1
        /\ IF stored
           THEN /\ durable' = [scans |-> Len(scans), eph |-> Len(ephemeral_events)]
                /\ pc' = "publish"
                /\ UNCHANGED <<in_loop, exit_reason, store_failed, locVars, ephVars, poolVars, ebs_i>>
           ELSE /\ store_failed' = scan_count
                /\ UNCHANGED durable
                /\ IF StoreFailureEscapes
                   THEN Raise /\ DropLocals /\ DropFutures
                   ELSE /\ pc' = "render"
                        /\ DropLocals /\ DropFutures
                        /\ UNCHANGED <<in_loop, exit_reason>>
    /\ UNCHANGED <<rtVars, engVars, scans, ephemeral_events, envVars, viewVars>>

(* lines 1157-1171: self.data is assigned whole, then last_refresh. *)
Publish ==
    /\ pc = "publish"
    /\ data' = Snapshot
    /\ data_scan' = scan_count
    /\ last_refresh' = scan_count
    /\ DropLocals /\ DropFutures
    /\ pc' = "render"
    /\ UNCHANGED <<in_loop, exit_reason, rtVars, account_id, enabled_regions, scan_count, storeVars, envVars, viewVars>>

(* ---- update_dashboard, lines 1323-1346 ---- *)
LastRows(rows, n) ==
    IF Len(rows) <= n THEN rows ELSE SubSeq(rows, Len(rows) - n + 1, Len(rows))

MaxOf(S) == CHOOSE x \in S : \A y \in S : y <= x

RECURSIVE Reverse(_)
Reverse(s) == IF s = <<>> THEN <<>> ELSE Append(Reverse(Tail(s)), Head(s))

(* line 1177-1179: SELECT ... FROM scans ORDER BY id DESC LIMIT 7. *)
NewestFirst(table, n) == Reverse(LastRows(table, n))

(* Amounts are kept in units of 1e-4 dollar; the program holds them as      *)
(* IEEE-754 doubles.  For these pairs of amounts the double quotient times  *)
(* 40.0 falls just below the whole number the exact product is:             *)
(* (0.01 / 0.05) * 40 = 7.999999999999999, (0.02 / 0.05) * 40 = 15.99...    *)
RoundsBelow(val, max_cost) == <<val, max_cost>> \in {<<100, 500>>, <<200, 500>>}

(* line 1187: int((val / max_cost) * 40), truncation of the double product. *)
BarLength(val, max_cost) ==
    LET exact == (val * BarWidth) \div max_cost
    IN  IF RoundsBelow(val, max_cost) THEN exact - 1 ELSE exact

HistoryNeverEmpty(rows) == FALSE

(* line 1180: if not rows. *)
HistoryIsEmpty(rows) == rows = <<>>

(* create_trend_panel, lines 1176-1189.  divisions counts the evaluations   *)
(* of val / max_cost; max() of no rows raises ValueError and a max_cost of  *)
(* 0 raises ZeroDivisionError at the first bar.                             *)
create_trend_panel(table) ==
    LET rows == NewestFirst(table, TrendLimit)
    IN  IF HistoryIsEmpty(rows)
        THEN [kind |-> "placeholder", bars |-> <<>>, divisions |-> 0]
        ELSE IF rows = <<>>
        THEN [kind |-> "raised", bars |-> <<>>, divisions |-> 0]
        ELSE LET max_cost == MaxOf({rows[i].total_monthly : i \in 1..Len(rows)})
                 shown == Reverse(rows)
             IN  IF max_cost = 0
                 THEN [kind |-> "raised", bars |-> <<>>, divisions |-> 1]
                 ELSE [kind |-> "bars",
                       bars |-> [i \in 1..Len(shown) |->
                                   [val |-> shown[i].total_monthly,
                                    bar |-> BarLength(shown[i].total_monthly, max_cost)]],
                       divisions |-> Len(shown)]

TrendRaises == create_trend_panel(scans).kind = "raised"

(* create_cost_summary_panel, lines 1194-1207. *)
create_cost_summary_panel(c) ==
    [kind |-> "cost", this_month |-> c.total_this, last_month |-> c.total_last,
     north_south |-> c.transfer_ns, east_west |-> c.transfer_ew,
     projected |-> c.total_this + c.transfer_ns + c.transfer_ew]

(* create_status_panel, lines 1272-1278 (its slot is what matters here). *)
create_status_panel == [kind |-> "status"]

(* create_transfer_matrix, lines 1560-1597: its own query of the month's    *)
(* usage types; the items with a cost above 0 that are transfer items, the  *)
(* first 8 of them shown with their direction.                              *)
MatrixDirection(g) ==
    IF MarkersIn(g.ut) \cap MatrixMarkers # {} THEN "North-South" ELSE "East-West"

MatrixRow(g) == [ut |-> g.ut, direction |-> MatrixDirection(g), cost |-> g.cost]

create_transfer_matrix(items) ==
    IF env[<<"cost", "global">>] # "ok"
    THEN [kind |-> "matrix_unavailable", rows |-> <<>>]
    ELSE LET Billed(g) == g.cost > 0 /\ IsTransferItem(g)
             kept == SelectSeq(items, Billed)
             rows == [i \in 1..Len(kept) |-> MatrixRow(kept[i])]
         IN  IF rows = <<>>
             THEN [kind |-> "no_transfer", rows |-> <<>>]
             ELSE [kind |-> "matrix", rows |-> SubSeq(rows, 1, IF Len(rows) < 8 THEN Len(rows) ELSE 8)]

(* line 1195: self.data["cost"] raises KeyError while self.data is the {}   *)
(* of line 749.                                                             *)
CostMissing == "cost" \notin DOMAIN data

(* The panels read self.data, self.scan_count and self.last_refresh: the    *)
(* cost summary is put in the layout before the trend panel is built.  The  *)
(* first update runs before run_dashboard's try; the loop's updates in it.  *)
(* With the v8.1 methods bound, update_dashboard_v81 goes on after this.    *)
Render ==
    /\ pc = "render"
    /\ layout' = IF CostMissing
                 THEN layout
                 ELSE [cost |-> create_cost_summary_panel(data["cost"]),
                       trend |-> IF TrendRaises THEN layout.trend ELSE create_trend_panel(scans),
                       status |-> IF TrendRaises THEN layout.status ELSE create_status_panel]
    /\ IF CostMissing \/ TrendRaises
       THEN Raise
       ELSE /\ pc' = IF patched THEN "render_v81" ELSE "sleep"
            /\ in_loop' = IF patched THEN in_loop ELSE TRUE
            /\ UNCHANGED exit_reason
    /\ UNCHANGED <<rtVars, engVars, locVars, ephVars, poolVars, ebs_i, storeVars, envVars, metrics, patched>>

(* line 1357: time.sleep(self.refresh_interval), then the next scan. *)
Sleep ==
    /\ pc = "sleep"
    /\ pc' = "scan_begin"
    /\ UNCHANGED <<in_loop, exit_reason, rtVars, engVars, locVars, ephVars, poolVars, ebs_i, storeVars, envVars, viewVars>>

(* ---- v8.1: get_idle_resources, lines 1385-1445 ---- *)
IsRunning(i) == i.state = "running"
IsAvailable(r) == r.state = "available"

IdleCandidatesNotZombie(snapshot, kind) ==
    LET Fresh(x) == /\ IF kind = "ec2" THEN IsRunning(x) ELSE IsAvailable(x)
                    /\ \A z \in 1..Len(snapshot["zombies"]) : snapshot["zombies"][z].id # x.id
    IN  IF kind \in DOMAIN snapshot THEN SelectSeq(snapshot[kind], Fresh) ELSE <<>>

(* lines 1391 and 1418: the records of self.data the metric is queried for. *)
IdleCandidates(snapshot, kind) ==
    LET Active(x) == IF kind = "ec2" THEN IsRunning(x) ELSE IsAvailable(x)
    IN  IF kind \in DOMAIN snapshot THEN SelectSeq(snapshot[kind], Active) ELSE <<>>

MeanAtMostThreshold(samples) == SumSeq(samples) <= IdleThreshold * Len(samples)

(* lines 1403-1404: statistics.mean(...) < 5, as sum < 5 * count. *)
MeanBelowThreshold(samples) == SumSeq(samples) < IdleThreshold * Len(samples)

(* lines 1392-1415: one record's query; a failed query and an empty list of *)
(* datapoints both leave the record out.                                    *)
QueryShowsIdle(m, kind, x) ==
    LET answer == m.query[<<kind, x.id>>]
    IN  answer.ok /\ answer.samples # <<>> /\ MeanBelowThreshold(answer.samples)

IdleRecord(m, kind, x) ==
    [id |-> x.id, type |-> x.type, region |-> x.region, metric |-> "CPU < 5%",
     avg |-> [sum |-> SumSeq(m.query[<<kind, x.id>>].samples),
              count |-> Len(m.query[<<kind, x.id>>].samples)]]

IdleOfKind(snapshot, m, kind) ==
    LET Low(x) == QueryShowsIdle(m, kind, x)
        low == SelectSeq(IdleCandidates(snapshot, kind), Low)
    IN  [i \in 1..Len(low) |-> IdleRecord(m, kind, low[i])]

get_idle_resources(snapshot, m) ==
    IdleOfKind(snapshot, m, "ec2") \o IdleOfKind(snapshot, m, "rds")

(* create_active_resources_panel, lines 1461-1506. *)
create_active_resources_panel(snapshot) ==
    [kind |-> "active",
     rows |-> Len(IdleCandidates(snapshot, "ec2")) + Len(IdleCandidates(snapshot, "rds"))
                 + Len(snapshot["lambda"])]

(* update_dashboard_v81, lines 1607-1617, after the original update: the    *)
(* transfer matrix replaces the status panel, the active-resources panel    *)
(* the cost summary and the idle panel the trend.                           *)
(* boto3.client("cloudwatch") of line 1388 is outside every try.            *)
UpdateDashboardV81 ==
    /\ pc = "render_v81"
    /\ IF metrics.client
       THEN /\ layout' = [cost |-> create_active_resources_panel(data),
                          trend |-> [kind |-> "idle", rows |-> get_idle_resources(data, metrics)],
                          status |-> create_transfer_matrix(usage)]
            /\ pc' = "sleep"
            /\ in_loop' = TRUE
            /\ UNCHANGED exit_reason
       ELSE /\ layout' = [layout EXCEPT !.cost = create_active_resources_panel(data),
                                         !.status = create_transfer_matrix(usage)]
            /\ Raise
    /\ UNCHANGED <<rtVars, engVars, locVars, ephVars, poolVars, ebs_i, storeVars, envVars, metrics, patched>>

(* ---- Ctrl+C ---- *)
ScanPcs == {"eph_lookup", "eph_insert", "eph_commit", "pool_submit", "pool_collect",
            "pool_exit", "s3", "ebs", "cost", "budget", "insert", "commit", "publish"}
PoolPcs == {"pool_collect", "pool_exit"}
AdvPcs == {"adv_init", "scan_begin", "render", "sleep"} \cup ScanPcs

(* KeyboardInterrupt is raised in the main thread wherever it is.  Inside   *)
(* the with block the executor's __exit__ first waits for the tasks.        *)
Interrupt ==
    /\ pc \in AdvPcs
    /\ IF pc \in PoolPcs
       THEN /\ pc' = "pool_unwind"
            /\ DropLocals
            /\ UNCHANGED <<exit_reason, futs>>
       ELSE /\ pc' = "exit"
            /\ exit_reason' = InterruptExit(in_loop)
            /\ DropLocals /\ DropFutures
    /\ UNCHANGED <<in_loop, rtVars, engVars, storeVars, envVars, viewVars>>

PoolUnwind ==
    /\ pc = "pool_unwind"
    /\ \A i \in 1..Len(futs) : TaskSettled(futs[i])
    /\ pc' = "exit"
    /\ exit_reason' = InterruptExit(in_loop)
    /\ DropFutures
    /\ UNCHANGED <<in_loop, rtVars, engVars, locVars, ephVars, pool_kind, fut_i, ebs_i, storeVars, envVars, viewVars>>

(* ---- the rest of the module, lines 1375-1621 ---- *)
(* The entry point of line 1369 sits above the v8.1 section: the two patch  *)
(* functions are called (lines 1513 and 1620) once AdvancedAWSCostWatch()   *)
(* has returned or line 1372 has caught its exception.  A KeyboardInterrupt *)
(* that leaves the constructor is not caught there and ends the program.    *)
InstallPatches ==
    /\ pc = "exit"
    /\ exit_reason # "keyboard_interrupt"
    /\ patched' = TRUE
    /\ pc' = "done"
    /\ UNCHANGED <<in_loop, exit_reason, rtVars, engVars, locVars, ephVars, poolVars, ebs_i, storeVars, envVars, layout, metrics>>

(* ================================================================== Next === *)
Next ==
    \/ RTInitClients
    \/ RTScanBegin
    \/ RTScanCollect
    \/ RTScanFinish
    \/ RTRender
    \/ RTInterrupt
    \/ AdvInitClients
    \/ ScanBegin
    \/ EphLookup
    \/ EphInsert
    \/ EphCommit
    \/ PoolSubmit
    \/ \E i \in 1..Len(futs) : TaskStart(i)
    \/ \E i \in 1..Len(futs) : TaskFinish(i)
    \/ PoolCollect
    \/ PoolExit
    \/ ScanS3
    \/ EbsRegion
    \/ ScanCost
    \/ ScanBudgets
    \/ InsertScan
    \/ CommitScan
    \/ Publish
    \/ Render
    \/ Sleep
    \/ Interrupt
    \/ PoolUnwind
    \/ InstallPatches

Spec == Init /\ [][Next]_vars


(* ------------------------------------------------ the correlator on its own *)
(* get_ephemeral_resources run once over every window of at most MaxEvents  *)
(* events, by an engine that has just started its first scan.               *)
AuditOnlyEnvironments ==
    { e \in Environments : \A c \in Calls : c # <<"audit", "global">> => e[c] = "ok" }

InitEph ==
    /\ pc = "eph_lookup" /\ in_loop = FALSE /\ exit_reason = ""
    /\ InitRT /\ InitLocals /\ InitStore /\ InitView
    /\ account_id = "123456789012"
    /\ enabled_regions = FallbackRegions
    /\ scan_count = 1
    /\ data = <<>> /\ data_scan = 0 /\ last_refresh = 0
    /\ env \in AuditOnlyEnvironments
    /\ trail \in AllWindows
    /\ usage = BilledUsage

NextEph == EphLookup \/ EphInsert \/ EphCommit

SpecEph == InitEph /\ [][NextEph]_vars


(* ------------------------------------------- scans under provider failures *)
(* The program when the user presses Ctrl-C only in the first dashboard and *)
(* the two writes of the scan row succeed: what is left to go wrong in a    *)
(* scan is the provider.  The main thread and the pool's workers keep       *)
(* running, and every provider call returns or raises, so a scan step that  *)
(* stays possible is taken.                                                 *)
InsertScanStored == InsertScan /\ store_failed' = store_failed

CommitScanStored == CommitScan /\ store_failed' = store_failed

ScanStep ==
    \/ EphLookup
    \/ EphInsert
    \/ EphCommit
    \/ PoolSubmit
    \/ \E i \in 1..Len(futs) : TaskStart(i)
    \/ \E i \in 1..Len(futs) : TaskFinish(i)
    \/ PoolCollect
    \/ PoolExit
    \/ ScanS3
    \/ EbsRegion
    \/ ScanCost
    \/ ScanBudgets
    \/ InsertScanStored
    \/ CommitScanStored
    \/ Publish

NextLive ==
    \/ RTInitClients
    \/ RTScanBegin
    \/ RTScanCollect
    \/ RTScanFinish
    \/ RTRender
    \/ RTInterrupt
    \/ AdvInitClients
    \/ ScanBegin
    \/ EphLookup
    \/ EphInsert
    \/ EphCommit
    \/ PoolSubmit
    \/ \E i \in 1..Len(futs) : TaskStart(i)
    \/ \E i \in 1..Len(futs) : TaskFinish(i)
    \/ PoolCollect
    \/ PoolExit
    \/ ScanS3
    \/ EbsRegion
    \/ ScanCost
    \/ ScanBudgets
    \/ InsertScanStored
    \/ CommitScanStored
    \/ Publish
    \/ Render
    \/ Sleep

LiveSpec == Init /\ [][NextLive]_vars /\ WF_vars(ScanStep)


(* ------------------------------------------------ the classifiers' inputs *)
(* An engine of the patched class (the module imported, lines 1513 and 1620 *)
(* run) whose first scan has written its row and is about to assign         *)
(* self.data, over every short list of compute, volume and database records *)
(* and every answer of the metric queries.  A database identifier is chosen *)
(* by its owner and may equal the identifier of an instance.                *)
Ec2Inputs ==
    { ParseRecord("ec2", "us-east-1", [id |-> i, type |-> "t3.micro", state |-> st, age |-> 10]) :
        i \in {"a", "b"}, st \in {"running", "stopped", "pending"} }

EbsInputs ==
    { ParseRecord("ebs", "us-east-1",
                  [id |-> "v", type |-> "gp2", state |-> "available", attachments |-> att]) :
        att \in { <<>>, <<"a">> } }

RdsInputs ==
    { ParseRecord("rds", "us-east-1", [id |-> "a", type |-> "db.t3.micro", state |-> st, age |-> 10]) :
        st \in {"available", "stopped"} }

(* A listing names an instance once. *)
DistinctIds(lists) ==
    { l \in lists : \A i, j \in 1..Len(l) : l[i].id = l[j].id => i = j }

MetricKeys == {<<"ec2", "a">>, <<"ec2", "b">>, <<"rds", "a">>}

(* A query raises, returns no datapoint, or returns averages whose mean is  *)
(* 4.5 or exactly 5.                                                        *)
MetricAnswers ==
    { [ok |-> FALSE, samples |-> <<>>], [ok |-> TRUE, samples |-> <<>>],
      [ok |-> TRUE, samples |-> <<2, 7>>], [ok |-> TRUE, samples |-> <<3, 7>>] }

MetricEnvironments ==
    { [client |-> TRUE, query |-> q] : q \in [MetricKeys -> MetricAnswers] }
        \cup { [client |-> FALSE, query |-> [k \in MetricKeys |-> [ok |-> FALSE, samples |-> <<>>]]] }

AllOk == [c \in Calls |-> "ok"]

InitClassify ==
    /\ pc = "publish" /\ in_loop = FALSE /\ exit_reason = ""
    /\ InitRT
    /\ account_id = "123456789012"
    /\ enabled_regions = FallbackRegions
    /\ scan_count = 1
    /\ data = <<>> /\ data_scan = 0 /\ last_refresh = 0
    /\ ec2_all \in DistinctIds(SeqsUpTo(Ec2Inputs, MaxRecords))
    /\ ebs_all \in SeqsUpTo(EbsInputs, 1)
    /\ rds_all \in SeqsUpTo(RdsInputs, 1)
    /\ eph_events = <<>> /\ lam_all = <<>> /\ s3_all = <<>>
    /\ cost_data = Billing /\ budgets = <<>>
    /\ eph_todo = <<>> /\ eph_raised = FALSE
    /\ futs = <<>> /\ pool_kind = 0 /\ fut_i = 0 /\ ebs_i = 0
    /\ scans = <<ScanRow>>
    /\ ephemeral_events = <<>>
    /\ durable = [scans |-> 1, eph |-> 0]
    /\ store_failed = 0 /\ store_faults = 0
    /\ env = AllOk /\ trail = <<>> /\ usage = BilledUsage
    /\ layout = [cost |-> NoPanel, trend |-> NoPanel, status |-> NoPanel]
    /\ metrics \in MetricEnvironments
    /\ patched = TRUE

NextClassify == Publish \/ Render \/ UpdateDashboardV81

SpecClassify == InitClassify /\ [][NextClassify]_vars

(* ------------------------------------------------- the trend panel's input *)
(* update_dashboard run once over every history of at most MaxHistory rows  *)
(* that the scans table of costwatch.db may hold: amounts of 0, 0.01 and    *)
(* 0.05 dollar in every order, and the history 10, 20, 5 dollars.           *)
TrendValues == {0, 100, 500}

HistoryRow(i, v) ==
    [scan |-> i, total_resources |-> 0, total_monthly |-> v,
     north_south |-> 0, east_west |-> 0, zombies |-> 0, ephemerals |-> 0]

Histories ==
    { [i \in 1..Len(h) |-> HistoryRow(i, h[i])] :
        h \in SeqsUpTo(TrendValues, MaxHistory) \cup { <<100000, 200000, 50000>> } }

EmptySnapshot ==
    [ec2 |-> <<>>, rds |-> <<>>, s3 |-> <<>>, lambda |-> <<>>, ebs |-> <<>>,
     ephemeral |-> <<>>, zombies |-> <<>>, cost |-> Billing, budgets |-> <<>>]

InitTrend ==
    /\ pc = "render" /\ in_loop = FALSE /\ exit_reason = ""
    /\ InitRT /\ InitLocals /\ InitView
    /\ account_id = "123456789012"
    /\ enabled_regions = FallbackRegions
    /\ scan_count = 1
    /\ data = EmptySnapshot /\ data_scan = 1 /\ last_refresh = 1
    /\ scans \in Histories
    /\ ephemeral_events = <<>>
    /\ durable = [scans |-> Len(scans), eph |-> 0]
    /\ store_failed = 0 /\ store_faults = 0
    /\ env = AllOk /\ trail = <<>> /\ usage = BilledUsage

NextTrend == Render

SpecTrend == InitTrend /\ [][NextTrend]_vars

(* --------------------------------------------------- the fetchers' inputs *)
(* One task of the pool inside get_ec2_instances or get_rds_instances, the  *)
(* provider's response received: every response of at most MaxRecords       *)
(* records over the classes of the price maps, a class in neither map, the  *)
(* empty class, and ages of 0, 10 and 720 hours.                            *)
RateAges == {0, 10, 720}

RateClasses(kind) ==
    IF kind = "ec2"
    THEN {"t3.micro", "t3.small", "t3.medium", "m5.large", "c5.large", "x1.large", ""}
    ELSE {"db.t3.micro", "db.t3.small", "db.t3.medium", "db.m5.large", "db.x1.large", "t3.micro"}

RateInputs(kind) ==
    { [id |-> "r", type |-> c, state |-> "running", age |-> a] :
        c \in RateClasses(kind), a \in RateAges }

PoolKindIndex(kind) == CHOOSE k \in 1..Len(PoolKinds) : PoolKinds[k] = kind

InitRates ==
    /\ pc = "pool_collect" /\ in_loop = FALSE /\ exit_reason = ""
    /\ InitRT /\ InitStore /\ InitView
    /\ account_id = "123456789012"
    /\ enabled_regions = FallbackRegions
    /\ scan_count = 1
    /\ data = <<>> /\ data_scan = 0 /\ last_refresh = 0
    /\ eph_events = <<>> /\ ec2_all = <<>> /\ rds_all = <<>> /\ lam_all = <<>>
    /\ s3_all = <<>> /\ ebs_all = <<>> /\ cost_data = NoCost /\ budgets = <<>>
    /\ eph_todo = <<>> /\ eph_raised = FALSE
    /\ \E kind \in {"ec2", "rds"} :
          /\ pool_kind = PoolKindIndex(kind)
          /\ \E response \in SeqsUpTo(RateInputs(kind), MaxRecords) :
                futs = << [kind |-> kind, region |-> "us-east-1", scan |-> 1,
                           state |-> "running", result |-> <<>>, response |-> response] >>
    /\ fut_i = 1 /\ ebs_i = 0
    /\ env = AllOk /\ trail = <<>> /\ usage = BilledUsage

(* lines 816-841 and 866-885: the next record of the response is parsed and *)
(* appended to the fetcher's list.                                          *)
FetcherParse(i) ==
    /\ futs[i].state = "running"
    /\ Len(futs[i].result) < Len(futs[i].response)
    /\ futs' = [futs EXCEPT ![i].result =
                   Append(@, ParseRecord(futs[i].kind, futs[i].region,
                                         futs[i].response[Len(futs[i].result) + 1]))]
    /\ UNCHANGED <<ctlVars, rtVars, engVars, locVars, ephVars, pool_kind, fut_i, ebs_i, storeVars, envVars, viewVars>>

(* lines 842-844 and 886-888: the loop ended, or a record raised and the    *)
(* except clause logged it; the list as filled so far is returned.          *)
FetcherReturn(i) ==
    /\ futs[i].state = "running"
    /\ futs' = [futs EXCEPT ![i].state = "done"]
    /\ UNCHANGED <<ctlVars, rtVars, engVars, locVars, ephVars, pool_kind, fut_i, ebs_i, storeVars, envVars, viewVars>>

NextRates ==
    \/ \E i \in 1..Len(futs) : FetcherParse(i)
    \/ \E i \in 1..Len(futs) : FetcherReturn(i)
    \/ PoolCollect

SpecRates == InitRates /\ [][NextRates]_vars

(* ------------------------------------------------- the transfer split's input *)
(* An engine of the patched class whose first scan listed one bucket and is *)
(* about to query the billing data, over every answer of at most MaxItems   *)
(* usage-type groups with a cost of 0 or 1 dollar; the billing calls of the *)
(* scan and of the matrix panel both succeed or both fail.                  *)
UsageTypes ==
    {"USE1-DataTransfer-Out-Bytes", "USE1-DataTransfer-Internet-Bytes",
     "USE1-DataTransfer-Regional-Bytes", "USE1-DataTransfer-In-Bytes",
     "USE1-USW2-AWS-In-Bytes", "USE1-CloudFront-Out-Bytes", "USE1-BoxUsage:t3.micro"}

UsageItems == { [ut |-> ut, cost |-> c] : ut \in UsageTypes, c \in {0, 10000} }

BillingDown == [AllOk EXCEPT ![<<"cost", "global">>] = "fail"]

NoMetrics == [client |-> TRUE, query |-> [k \in MetricKeys |-> [ok |-> FALSE, samples |-> <<>>]]]

InitTransfer ==
    /\ pc = "cost" /\ in_loop = FALSE /\ exit_reason = ""
    /\ InitRT /\ InitStore
    /\ account_id = "123456789012"
    /\ enabled_regions = FallbackRegions
    /\ scan_count = 1
    /\ data = <<>> /\ data_scan = 0 /\ last_refresh = 0
    /\ eph_events = <<>> /\ ec2_all = <<>> /\ rds_all = <<>> /\ lam_all = <<>>
    /\ s3_all = ParseAll("s3", "us-east-1", RawInventory("s3", "global"))
    /\ ebs_all = <<>> /\ cost_data = NoCost /\ budgets = <<>>
    /\ eph_todo = <<>> /\ eph_raised = FALSE
    /\ futs = <<>> /\ pool_kind = 0 /\ fut_i = 0 /\ ebs_i = 0
    /\ env \in {AllOk, BillingDown} /\ trail = <<>>
    /\ usage \in SeqsUpTo(UsageItems, MaxItems)
    /\ layout = [cost |-> NoPanel, trend |-> NoPanel, status |-> NoPanel]
    /\ metrics = NoMetrics
    /\ patched = TRUE

NextTransfer ==
    \/ ScanCost
    \/ ScanBudgets
    \/ InsertScan
    \/ CommitScan
    \/ Publish
    \/ Render
    \/ UpdateDashboardV81

SpecTransfer == InitTransfer /\ [][NextTransfer]_vars

(* ------------------------------------------------ the pool over many regions *)
(* An engine whose account has eleven enabled regions, one more than the    *)
(* pool has threads, at the with block of its first scan; every provider    *)
(* call succeeds.                                                           *)
ManyRegions ==
    <<"us-east-1", "us-east-2", "us-west-1", "us-west-2", "eu-west-1", "eu-west-2",
      "eu-central-1", "ap-south-1", "ap-northeast-1", "ap-southeast-1", "sa-east-1">>

ManyCalls == (ListKinds \X {ManyRegions[i] : i \in 1..Len(ManyRegions)}) \cup GlobalCalls

InitPool ==
    /\ pc = "pool_submit" /\ in_loop = FALSE /\ exit_reason = ""
    /\ InitRT /\ InitLocals /\ InitStore /\ InitView
    /\ account_id = "123456789012"
    /\ enabled_regions = ManyRegions
    /\ scan_count = 1
    /\ data = <<>> /\ data_scan = 0 /\ last_refresh = 0
    /\ env = [c \in ManyCalls |-> "ok"] /\ trail = <<>> /\ usage = BilledUsage

NextPool ==
    \/ PoolSubmit
    \/ \E i \in 1..Len(futs) : TaskStart(i)
    \/ \E i \in 1..Len(futs) : TaskFinish(i)
    \/ PoolCollect
    \/ PoolExit
    \/ ScanS3

SpecPool == InitPool /\ [][NextPool]_vars

(* ================================================================ claims === *)
(* get_ephemeral_resources has returned: the scan is about to use the pool. *)
EphReturned == pc = "pool_submit" /\ pool_kind = 0

AuditOk == env[<<"audit", "global">>] = "ok"

CreateIdx(w, id) == {i \in 1..Len(w) : w[i].rid = id /\ IsCreateEvent(w[i].name)}
DeleteIdx(w, id) == {i \in 1..Len(w) : w[i].rid = id /\ IsDeleteEvent(w[i].name)}
HasPair(w, id) == CreateIdx(w, id) # {} /\ DeleteIdx(w, id) # {}
LastLife(w, id) == w[MaxOf(DeleteIdx(w, id))].time - w[MaxOf(CreateIdx(w, id))].time
Reported(id) == \E i \in 1..Len(eph_events) : eph_events[i].resource_id = id

Published == pc = "render" /\ data_scan = scan_count

Partitions == {enabled_regions[i] : i \in 1..Len(enabled_regions)}

(* The records the successful listing calls of a kind returned, counted. *)
SuccessfulCount(kind) ==
    IF kind = "s3"
    THEN IF env[<<"s3", "global">>] = "ok" THEN Len(RawInventory("s3", "global")) ELSE 0
    ELSE LET Returned(r) == IF env[<<kind, r>>] = "ok" THEN Len(RawInventory(kind, r)) ELSE 0
         IN  SumSeq([i \in 1..Len(enabled_regions) |-> Returned(enabled_regions[i])])

(* C1: in every published snapshot each of ec2, rds, lambda and s3 is a key *)
(* and holds as many records as the successful listing calls of that kind   *)
(* returned; a partition whose call failed contributes none.                *)
C1_CountsMatchSuccessfulCalls ==
    Published =>
        \A kind \in {"ec2", "rds", "lambda", "s3"} :
            /\ kind \in DOMAIN data
            /\ Len(data[kind]) = SuccessfulCount(kind)

(* C2: in every published snapshot the records of every (partition, kind)   *)
(* whose listing call succeeded are all there, whatever other call failed.  *)
C2_FailuresAreIndependent ==
    Published =>
        /\ \A kind \in ListKinds : \A r \in Partitions :
              env[<<kind, r>>] = "ok" =>
                  SelectRegion(data[kind], r) = ParseAll(kind, r, RawInventory(kind, r))
        /\ env[<<"s3", "global">>] = "ok" =>
              data["s3"] = ParseAll("s3", "us-east-1", RawInventory("s3", "global"))

(* C3: whenever the panels are about to read self.data, it holds every key, *)
(* it was assigned by the scan whose number self.scan_count shows, that     *)
(* scan appended its row, and its derived fields agree with its lists; the  *)
(* first dashboard reads its data only after the scan that reset it is      *)
(* complete.                                                                *)
C3_SnapshotPublishedWhole ==
    /\ pc = "render" =>
          /\ DOMAIN data = DataKeys
          /\ data_scan = scan_count
          /\ last_refresh = scan_count
          /\ scans # <<>>
          /\ scans[Len(scans)].scan = scan_count
          /\ data["zombies"] = detect_zombie_resources(data["ec2"], data["ebs"])
          /\ scans[Len(scans)].zombies = Len(data["zombies"])
          /\ scans[Len(scans)].ephemerals = Len(data["ephemeral"])
          /\ scans[Len(scans)].north_south = data["cost"].transfer_ns
    /\ pc = "rt_render" =>
          /\ rt_data.stage = "complete"
          /\ rt_data.scan = rt_scan_count

(* The second scan's snapshot, with a zombie in it, is about to be rendered. *)
C3_Witness ==
    /\ pc = "render" /\ in_loop /\ scan_count = 2 /\ data_scan = 2
    /\ data["zombies"] # <<>>

(* C4: the scan loop is never ended by a failed write of the scan row. *)
C4_StoreFailureDoesNotEndLoop ==
    ~(pc = "exit" /\ exit_reason = "fatal_error" /\ store_failed > 0 /\ store_failed = scan_count)

(* C5: when the user has stopped the scan loop, the last scan that left     *)
(* committed ephemeral_events rows also appended its scan row and published *)
(* its snapshot.                                                            *)
C5_InterruptOnlyBetweenScans ==
    (pc = "exit" /\ exit_reason = "stopped_by_user") =>
        \A i \in 1..durable.eph :
            ephemeral_events[i].scan = scan_count =>
                /\ \E j \in 1..Len(scans) : scans[j].scan = scan_count
                /\ data_scan = scan_count

(* C6: the i-th row of scans was written by the i-th scan; while scan N+1   *)
(* is collecting, scan N has appended its row and published; and between    *)
(* scans every scan begun so far has appended its row and published.        *)
C6_RowsInScanOrder ==
    /\ \A i \in 1..Len(scans) : scans[i].scan = i
    /\ Len(scans) <= scan_count
    /\ pc \in (ScanPcs \ {"commit", "publish"}) \cup {"pool_unwind"} =>
          /\ Len(scans) = scan_count - 1
          /\ data_scan = scan_count - 1
    /\ pc \in {"render", "sleep", "scan_begin"} =>
          /\ Len(scans) = scan_count
          /\ data_scan = scan_count

(* The second scan is collecting after the first appended and published. *)
C6_Witness ==
    /\ pc = "insert" /\ scan_count = 2 /\ Len(scans) = 1 /\ data_scan = 1

(* C7: outside the with block of the pool no task is queued or running: all *)
(* tasks of a scan are done before its row is built and before the next     *)
(* scan starts, and a task belongs to the scan in progress.                 *)
C7_ScanIsBarrier ==
    /\ pc \notin {"pool_collect", "pool_exit", "pool_unwind"} =>
          \A i \in 1..Len(futs) : futs[i].state = "done"
    /\ \A i \in 1..Len(futs) : futs[i].scan = scan_count
    /\ pc \in {"s3", "ebs", "cost", "budget", "insert", "commit", "publish"} =>
          Len(futs) = Len(enabled_regions)

(* The second scan builds its row with both regions' tasks done. *)
C7_Witness ==
    /\ pc = "insert" /\ scan_count = 2 /\ Len(futs) = 2
    /\ \A i \in 1..Len(futs) : futs[i].state = "done"
    /\ lam_all # <<>>

(* C8: an engine whose identity check failed has started no scan and is not *)
(* in its scan loop; this holds for both dashboards.                        *)
C8_NoScanWithoutIdentity ==
    /\ (pc \in RTPcs \ {"rt_init"}) => rt_authed
    /\ ~rt_authed => rt_scan_count = 0
    /\ account_id = "None" =>
          /\ scan_count = 0
          /\ ~in_loop
          /\ pc \notin ScanPcs \cup {"scan_begin", "render", "sleep", "pool_unwind"}

(* The second engine's identity check failed and construction ended. *)
C8_Witness ==
    /\ pc = "exit" /\ exit_reason = "startup_error"
    /\ account_id = "None" /\ scan_count = 0 /\ scans = <<>>


(* C9: whichever provider calls fail, a scan that has started goes on to    *)
(* append its row to scans and to publish its snapshot.                     *)
C9_StartedScanPublishes ==
    \A n \in 1..MaxScans :
        (pc = "eph_lookup" /\ scan_count = n)
            ~> (pc = "render" /\ data_scan = n /\ Len(scans) = n /\ scans[n].scan = n)

(* The second scan published although the billing and budget calls failed. *)
C9_Witness ==
    /\ Published /\ scan_count = 2 /\ Len(scans) = 2
    /\ env[<<"cost", "global">>] = "fail"
    /\ env[<<"budgets", "global">>] = "fail"
    /\ data["budgets"] = <<>>

(* C11: every record the correlator has returned and every row it has       *)
(* inserted into ephemeral_events has a lifetime of zero or more.           *)
C11_LifetimeNonNegative ==
    /\ \A i \in 1..Len(eph_events) : eph_events[i].lifetime >= 0
    /\ \A i \in 1..Len(ephemeral_events) : ephemeral_events[i].lifetime >= 0

IsPrefix(s, t) == Len(s) <= Len(t) /\ SubSeq(t, 1, Len(s)) = s

(* The second scan has run the correlator over the window the first scan,   *)
(* whose list is in the published snapshot, ran it over.                    *)
Replayed == EphReturned /\ scan_count = 2 /\ data_scan = 1

Range(s) == {s[i] : i \in 1..Len(s)}

CountIn(s, S) == Cardinality({i \in 1..Len(s) : s[i] \in S})

SnapshotHeld == DOMAIN data = DataKeys

(* C13: in the zombie list of a snapshot, a compute record is present if    *)
(* and only if its state is not "running", a volume record if and only if   *)
(* it has no attachment, and there is nothing else, each record once per    *)
(* occurrence in the input.                                                 *)
C13_ZombieClassification ==
    SnapshotHeld =>
        LET zombies == data["zombies"]
            Unattached(v) == v.attachments = <<>>
            Stale(i) == i.state # "running"
        IN  /\ \A i \in Range(data["ec2"]) : (i \in Range(zombies)) <=> (i.state # "running")
            /\ \A v \in Range(data["ebs"]) : (v \in Range(zombies)) <=> (v.attachments = <<>>)
            /\ Range(zombies) \subseteq Range(data["ec2"]) \cup Range(data["ebs"])
            /\ Len(zombies) = CountIn(data["ec2"], {i \in Range(data["ec2"]) : Stale(i)})
                                + CountIn(data["ebs"], {v \in Range(data["ebs"]) : Unattached(v)})

(* A snapshot with a running instance, a pending instance and an attached   *)
(* volume: the pending instance is the only zombie.                         *)
C13_Witness ==
    /\ SnapshotHeld
    /\ \E i \in Range(data["ec2"]) : i.state = "pending" /\ i \in Range(data["zombies"])
    /\ \E i \in Range(data["ec2"]) : i.state = "running" /\ i \notin Range(data["zombies"])
    /\ \E v \in Range(data["ebs"]) : v.attachments # <<>> /\ v \notin Range(data["zombies"])
    /\ Len(data["zombies"]) = 1

(* get_idle_resources has returned and its list is in the layout. *)
IdleShown == layout.trend.kind = "idle"

IdleRows == layout.trend.rows

ReportedIdle(x) == \E k \in 1..Len(IdleRows) : IdleRows[k].id = x.id /\ IdleRows[k].type = x.type

Sampled(kind, x) ==
    /\ metrics.query[<<kind, x.id>>].ok
    /\ metrics.query[<<kind, x.id>>].samples # <<>>

MeanOfSamplesBelow(kind, x, limit) ==
    LET samples == metrics.query[<<kind, x.id>>].samples
    IN  SumSeq(samples) < limit * Len(samples)

ShouldBeIdle(kind, x) ==
    /\ x.state = IF kind = "ec2" THEN "running" ELSE "available"
    /\ Sampled(kind, x)
    /\ MeanOfSamplesBelow(kind, x, 5)

(* C14: a record of the snapshot is in the idle list if and only if it is a *)
(* running compute record or an available database record whose query      *)
(* returned at least one sample with a mean below 5; nothing else is in the *)
(* list, whatever happened to the queries of the other records.             *)
C14_IdleClassification ==
    IdleShown =>
        LET IdleEc2(x) == ShouldBeIdle("ec2", x)
            IdleRds(x) == ShouldBeIdle("rds", x)
        IN  /\ \A x \in Range(data["ec2"]) : ReportedIdle(x) <=> ShouldBeIdle("ec2", x)
            /\ \A x \in Range(data["rds"]) : ReportedIdle(x) <=> ShouldBeIdle("rds", x)
            /\ Len(IdleRows) = CountIn(data["ec2"], {x \in Range(data["ec2"]) : IdleEc2(x)})
                                 + CountIn(data["rds"], {x \in Range(data["rds"]) : IdleRds(x)})
            /\ \A k \in 1..Len(IdleRows) :
                  \E x \in Range(data["ec2"]) \cup Range(data["rds"]) :
                      IdleRows[k].id = x.id /\ IdleRows[k].type = x.type

(* Instance a is reported idle while the query of instance b failed and the *)
(* database's samples have a mean of exactly 5.                             *)
C14_Witness ==
    /\ IdleShown
    /\ Len(IdleRows) = 1 /\ IdleRows[1].id = "a" /\ IdleRows[1].type = "t3.micro"
    /\ \E x \in Range(data["ec2"]) : x.id = "b" /\ x.state = "running"
    /\ ~metrics.query[<<"ec2", "b">>].ok
    /\ \E x \in Range(data["rds"]) : x.state = "available"
    /\ metrics.query[<<"rds", "a">>].samples = <<3, 7>>

ZombieIds == {data["zombies"][i].id : i \in 1..Len(data["zombies"])}

IdleIds == {IdleRows[k].id : k \in 1..Len(IdleRows)}

(* C15: the idle pass does not look at the zombie list: a record that       *)
(* qualifies as idle is reported also when its identifier is in the zombie  *)
(* list, and the zombie list of the snapshot is what it was.                *)
C15_PassesIndependent ==
    IdleShown =>
        /\ \A x \in Range(data["ec2"]) :
              (x.id \in ZombieIds /\ ShouldBeIdle("ec2", x)) => x.id \in IdleIds
        /\ \A x \in Range(data["rds"]) :
              (x.id \in ZombieIds /\ ShouldBeIdle("rds", x)) => x.id \in IdleIds
        /\ data["zombies"] = detect_zombie_resources(data["ec2"], data["ebs"])

(* One identifier is in both outputs. *)
C15_Witness == IdleShown /\ ZombieIds \cap IdleIds # {}

(* The partitions of the scan whose listing call of a kind did not succeed. *)
FailedPartitions(kind) == {r \in Partitions : env[<<kind, r>>] # "ok"}

FailureCounts == [kind \in ListKinds |-> Cardinality(FailedPartitions(kind))]

(* C16: a published snapshot of a scan in which a listing call failed holds *)
(* a field with the number of failed partitions of every kind.              *)
C16_SnapshotCarriesFailureCount ==
    (Published /\ \E kind \in ListKinds : FailedPartitions(kind) # {}) =>
        \E k \in DOMAIN data \ DataKeys : data[k] = FailureCounts

Hourlies(s) == [i \in 1..Len(s) |-> s[i].hourly]

(* The sum of the hourly rates of the running instances and available       *)
(* databases of the snapshot.                                               *)
BurnRate ==
    SumSeq(Hourlies(IdleCandidates(data, "ec2"))) + SumSeq(Hourlies(IdleCandidates(data, "rds")))

(* The cost summary of the current snapshot is in the layout. *)
CostShown == pc = "sleep" /\ data_scan = scan_count /\ layout.cost.kind = "cost"

(* C17: when no billed resource of the snapshot is running, the projected   *)
(* figure of the cost summary is the amount spent so far this month.        *)
C17_ZeroBurnProjection ==
    (CostShown /\ BurnRate = 0) => layout.cost.projected = data["cost"].total_this

(* update_dashboard has run: it returned or it raised. *)
Rendered == pc \in {"sleep", "exit"}

(* C18: with no row in scans the trend panel is the placeholder, no         *)
(* division was evaluated and nothing was raised.                           *)
C18_EmptyHistoryPlaceholder ==
    (Rendered /\ scans = <<>>) =>
        /\ pc = "sleep"
        /\ layout.trend.kind = "placeholder"
        /\ layout.trend.divisions = 0
        /\ layout.trend.bars = <<>>

(* The panels were built over an empty scans table. *)
C18_Witness ==
    /\ pc = "sleep" /\ scans = <<>>
    /\ layout.trend.kind = "placeholder" /\ layout.cost.kind = "cost"

C20_AppendOnly ==
    [][/\ IsPrefix(scans, scans')
       /\ IsPrefix(ephemeral_events, ephemeral_events')
       /\ durable.scans <= durable'.scans
       /\ durable.eph <= durable'.eph]_vars

(* Two scans have written their rows and the panels were rendered twice. *)
C20_Witness ==
    /\ pc = "sleep" /\ scan_count = 2
    /\ Len(scans) = 2 /\ Len(ephemeral_events) = 4
    /\ layout.trend.kind = "bars"

(* C21: while no statement on the store has raised, scans holds one row for *)
(* every scan that has reached its INSERT and none for the scan still       *)
(* collecting: between scans the number of rows is self.scan_count, and no  *)
(* scan number is on two rows.                                              *)
C21_OneRowPerScan ==
    store_faults = 0 =>
        /\ pc \in {"commit", "publish", "render", "sleep", "scan_begin"} => Len(scans) = scan_count
        /\ pc \in ScanPcs \ {"commit", "publish"} => Len(scans) = scan_count - 1
        /\ \A n \in 1..scan_count : Cardinality({i \in 1..Len(scans) : scans[i].scan = n}) <= 1

(* Two scans returned, a listing call of each having failed, and the store  *)
(* accepted every write.                                                    *)
C21_Witness ==
    /\ pc = "sleep" /\ scan_count = 2 /\ store_faults = 0
    /\ Len(scans) = 2
    /\ env[<<"ec2", "us-east-1">>] = "fail"

(* The price maps of lines 846-852 and 890-895, in units of 1e-4 dollar.    *)
Ec2RateTable ==
    ("t3.micro" :> 104) @@ ("t3.small" :> 208) @@ ("t3.medium" :> 416)
        @@ ("m5.large" :> 960) @@ ("c5.large" :> 850)

RdsRateTable ==
    ("db.t3.micro" :> 160) @@ ("db.t3.small" :> 320) @@ ("db.t3.medium" :> 640)
        @@ ("db.m5.large" :> 1710)

RateTable(kind) == IF kind = "ec2" THEN Ec2RateTable ELSE RdsRateTable

(* A record agrees with the response entry it was parsed from. *)
CostDerived(kind, x, raw) ==
    /\ x.hourly = IF raw.type \in DOMAIN RateTable(kind) THEN RateTable(kind)[raw.type] ELSE 500
    /\ x.hourly > 0
    /\ x.monthly = x.hourly * 24 * 30
    /\ x.total = x.hourly * raw.age

Collected(kind) == IF kind = "ec2" THEN ec2_all ELSE rds_all

(* C22: every compute and database record, in the fetcher's list and in the *)
(* scan's list after it was collected, has the hourly rate of its class in  *)
(* the price map or the default of 0.05 when the class is not in the map,   *)
(* never 0; its monthly estimate is hourly x 24 x 30 and its cumulative     *)
(* estimate is hourly x hours since creation.                               *)
C22_CostDerivation ==
    \A i \in 1..Len(futs) :
        LET f == futs[i]
        IN  /\ Len(f.result) <= Len(f.response)
            /\ \A j \in 1..Len(f.result) : CostDerived(f.kind, f.result[j], f.response[j])
            /\ \A j \in 1..Len(Collected(f.kind)) :
                  CostDerived(f.kind, Collected(f.kind)[j], f.response[j])

(* A t3.micro of 10 hours (0.0104/h: 7.488 a month, 0.104 so far) and an    *)
(* instance of a class outside the map were collected.                      *)
C22_Witness ==
    /\ pc = "pool_submit" /\ Len(ec2_all) = 2
    /\ ec2_all[1].type = "t3.micro" /\ ec2_all[1].monthly = 74880 /\ ec2_all[1].total = 1040
    /\ ec2_all[2].type = "x1.large" /\ ec2_all[2].hourly = 500 /\ ec2_all[2].monthly = 360000

(* The matrix panel of the scan's month is in the layout beside the scan's  *)
(* cost breakdown.                                                          *)
TransferShown ==
    /\ pc = "sleep" /\ data_scan = scan_count
    /\ layout.status.kind \in {"matrix", "no_transfer"}

HasOutwardMarker(ut) == "Out" \in MarkersIn(ut) \/ "Internet" \in MarkersIn(ut)

(* C23: a transfer line item counts as north-south exactly when its usage   *)
(* type contains "Out" or "Internet" and as east-west otherwise, in the     *)
(* sums of the cost breakdown and in the rows of the matrix panel alike.    *)
C23_TransferSplit ==
    TransferShown =>
        LET Outward(g) == IsTransferItem(g) /\ HasOutwardMarker(g.ut)
            Inward(g) == IsTransferItem(g) /\ ~HasOutwardMarker(g.ut)
            rows == layout.status.rows
        IN  /\ data["cost"].transfer_ns = SumSeq(Costs(SelectSeq(usage, Outward)))
            /\ data["cost"].transfer_ew = SumSeq(Costs(SelectSeq(usage, Inward)))
            /\ \A i \in 1..Len(rows) :
                  rows[i].direction = "North-South" <=> HasOutwardMarker(rows[i].ut)

RecordsOf(id) == {i \in 1..Len(eph_events) : eph_events[i].resource_id = id}

RowsOf(id) ==
    {i \in 1..Len(ephemeral_events) :
        ephemeral_events[i].scan = scan_count /\ ephemeral_events[i].resource_id = id}

(* C24: a correlation run returns and inserts at most one record for an     *)
(* identifier, and the record's created and deleted times are those of the  *)
(* last create event and the last delete event fetched for the identifier,  *)
(* however many such events the window holds.                               *)
C24_LastWriteWins ==
    (EphReturned /\ AuditOk) =>
        \A id \in ResourceIds :
            /\ Cardinality(RecordsOf(id)) <= 1
            /\ Cardinality(RowsOf(id)) <= 1
            /\ \A i \in RecordsOf(id) :
                  /\ eph_events[i].created = trail[MaxOf(CreateIdx(trail, id))].time
                  /\ eph_events[i].deleted = trail[MaxOf(DeleteIdx(trail, id))].time
            /\ \A i \in RowsOf(id) :
                  /\ ephemeral_events[i].created = trail[MaxOf(CreateIdx(trail, id))].time
                  /\ ephemeral_events[i].deleted = trail[MaxOf(DeleteIdx(trail, id))].time

(* The window held create events of X at 0 and at 300 and a delete event at *)
(* 600: one record, created at 300.                                         *)
C24_Witness ==
    /\ EphReturned /\ AuditOk /\ ~eph_raised
    /\ Len(trail) = 3
    /\ Cardinality(CreateIdx(trail, "X")) = 2
    /\ trail[1].time = 0 /\ trail[2].time = 300 /\ trail[3].time = 600
    /\ Len(eph_events) = 1
    /\ eph_events[1].resource_id = "X" /\ eph_events[1].created = 300
    /\ Len(ephemeral_events) = 1

Queued == {i \in 1..Len(futs) : futs[i].state = "queued"}

ListOf(kind) ==
    CASE kind = "ec2" -> ec2_all
      [] kind = "rds" -> rds_all
      [] kind = "lambda" -> lam_all

(* C25: at most 10 tasks of the pool are running at any time; while a kind  *)
(* is being collected there is exactly one task for every enabled region,   *)
(* all of that kind; once the with block is left every (region, kind) pair  *)
(* has contributed its records exactly once; and the bucket listing runs    *)
(* after the pool, once.                                                    *)
C25_PoolBounded ==
    /\ Cardinality(Running) <= 10
    /\ pc \in {"pool_collect", "pool_exit"} =>
          /\ Len(futs) = Len(enabled_regions)
          /\ \A i \in 1..Len(futs) :
                futs[i].region = enabled_regions[i] /\ futs[i].kind = PoolKinds[pool_kind]
    /\ pc \in {"s3", "ebs"} =>
          \A k \in 1..Len(PoolKinds) : \A i \in 1..Len(enabled_regions) :
              SelectRegion(ListOf(PoolKinds[k]), enabled_regions[i])
                  = ParseAll(PoolKinds[k], enabled_regions[i],
                             RawInventory(PoolKinds[k], enabled_regions[i]))
    /\ pc \in {"pool_submit", "pool_collect", "pool_exit", "s3"} => s3_all = <<>>
    /\ pc = "ebs" => s3_all = ParseAll("s3", "us-east-1", RawInventory("s3", "global"))

(* Ten instance listings are running and the eleventh region's waits for a  *)
(* thread.                                                                  *)
C25_Witness ==
    /\ pc = "pool_collect" /\ PoolKinds[pool_kind] = "ec2"
    /\ Len(enabled_regions) = 11
    /\ Cardinality(Running) = 10 /\ Cardinality(Queued) = 1

(* update_dashboard raised after the current scan published its snapshot. *)
UpdateRaised ==
    /\ pc = "exit" /\ exit_reason \in {"startup_error", "fatal_error"}
    /\ scan_count > 0 /\ data_scan = scan_count

(* C26: whatever rows the scans table holds, the trend panel is built       *)
(* without a division by zero: over a non-empty history create_trend_panel  *)
(* returns the panel of bars, and no dashboard update that follows a        *)
(* published scan raises.                                                   *)
C26_TrendNeverDividesByZero ==
    /\ scans # <<>> => create_trend_panel(scans).kind = "bars"
    /\ ~UpdateRaised

(* The records of a snapshot whose monthly estimates line 1134 sums. *)
CostedRecords(snapshot) ==
    Len(snapshot["ec2"]) + Len(snapshot["rds"]) + Len(snapshot["s3"])
        + Len(snapshot["lambda"]) + Len(snapshot["ebs"])

CostedMonthly(snapshot) ==
    SumSeq(Monthlies(snapshot["ec2"])) + SumSeq(Monthlies(snapshot["rds"]))
        + SumSeq(Monthlies(snapshot["s3"])) + SumSeq(Monthlies(snapshot["lambda"]))
        + SumSeq(Monthlies(snapshot["ebs"]))

(* C27: the row a scan appended counts in total_resources the records whose *)
(* monthly estimates make up its total_monthly: the compute, database,      *)
(* bucket, function and volume records of the scan's snapshot.              *)
C27_RowCountsCostedRecords ==
    Published =>
        /\ scans[Len(scans)].total_monthly = CostedMonthly(data)
        /\ scans[Len(scans)].total_resources = CostedRecords(data)

RowsInsertedBy(n) == {i \in 1..Len(ephemeral_events) : ephemeral_events[i].scan = n}

(* C28: the ephemerals field of every row of scans is the number of rows    *)
(* of ephemeral_events that the same scan inserted, so the column sums to   *)
(* the number of rows of ephemeral_events once every scan begun has         *)
(* appended its row.                                                        *)
C28_EphemeralCountMatchesRows ==
    /\ \A k \in 1..Len(scans) :
          scans[k].ephemerals = Cardinality(RowsInsertedBy(scans[k].scan))
    /\ Len(scans) = scan_count =>
          SumSeq([k \in 1..Len(scans) |-> scans[k].ephemerals]) = Len(ephemeral_events)

SamePair(a, b) ==
    a.resource_id = b.resource_id /\ a.created = b.created /\ a.deleted = b.deleted

(* C29: no two rows of ephemeral_events hold the same create/delete pair:   *)
(* a pair that more than one correlation run has seen is stored once.       *)
C29_PairPersistedOnce ==
    \A i, j \in 1..Len(ephemeral_events) :
        SamePair(ephemeral_events[i], ephemeral_events[j]) => i = j

(* The second engine has started scanning or is in its loop. *)
EngineRunning == pc \in (AdvPcs \ {"adv_init"}) \cup {"pool_unwind"}

(* C30: while AdvancedAWSCostWatch scans and runs its loop the v8.1 methods *)
(* are bound to the class, and every update of the loop has put the idle    *)
(* panel in the layout.                                                     *)
C30_PatchesInstalledBeforeLoop ==
    /\ EngineRunning => patched
    /\ (pc = "sleep" /\ in_loop) => layout.trend.kind = "idle"

====
